---- MODULE Spec2Model ----
(***************************************************************************)
(* Verification model of the confmap providers (http, https, s3) and of   *)
(* the s3 URI decomposer S3URISplit.                                       *)
(*                                                                         *)
(* Strings are sequences of one-character strings, so that                 *)
(* strings.HasPrefix and strings.Split are computed as Go computes them.   *)
(***************************************************************************)
EXTENDS Integers, Sequences, FiniteSets, TLC

VARIABLES
    kind,    \* which provider implementation the instance under test is
    env,     \* process environment and host facts read by the providers
    client,  \* the provider's client field (set by New)
    calls,   \* per caller: the Retrieve call in progress
    parts,   \* S3URISplit harness: the pieces the input URI was built from
    suri,    \* S3URISplit harness: the input URI
    sres,    \* S3URISplit harness: the returned tuple
    life,    \* the provider's lifecycle: Shutdown calls made and what the last returned
    schemeRet, \* what the last Scheme() call returned
    ctx,     \* per caller: the context passed to Retrieve
    backend, \* "any": servers answer arbitrarily; "fixed": one content per URI
    hist,    \* what the caller kept of its previous Retrieve, when it keeps it
    io,      \* per caller: the watcher passed to Retrieve and the requests sent to AWS
    transports, \* HTTP transports the provider created and has not closed
    cmd      \* the command built by NewCommand and its RunE calls

vars == <<kind, env, client, calls, parts, suri, sres, life, schemeRet, ctx, backend, hist, io, transports, cmd>>

(***************************************************************************)
(* Bounds                                                                  *)
(***************************************************************************)
MaxNameLen == 2      \* longest bucket / region drawn for the decomposer
MaxKeyPieces == 2    \* most pieces a drawn key is made of
MaxBody == 2         \* longest response body / object, in bytes
MaxShutdowns == 3    \* most Shutdown calls made on one provider
MaxTransports == 2   \* open transports are counted up to this many
MaxRuns == 2         \* most RunE invocations of one command

(***************************************************************************)
(* String constants of the sources                                         *)
(***************************************************************************)
s3SchemeName == <<"s", "3">>
httpSchemeName == <<"h", "t", "t", "p">>
httpsSchemeName == <<"h", "t", "t", "p", "s">>
stop == <<".">>
colonSlashes == <<":", "/", "/">>
s3URITail == <<".", "a", "m", "a", "z", "o", "n", "a", "w", "s", ".", "c", "o", "m", "/">>

(***************************************************************************)
(* Go's strings package                                                    *)
(***************************************************************************)
\* strings.HasPrefix(s, p)
HasPrefix(s, p) == Len(s) >= Len(p) /\ SubSeq(s, 1, Len(p)) = p

\* strings.Index(s, sep): 0-based position of the first occurrence, -1 if none
Index(s, sep) ==
    LET hits == {i \in 0..(Len(s) - Len(sep)) : SubSeq(s, i + 1, i + Len(sep)) = sep}
    IN  IF hits = {} THEN -1
        ELSE CHOOSE i \in hits : \A j \in hits : i <= j

\* strings.Split(s, sep) for a non-empty sep
RECURSIVE Split(_, _)
Split(s, sep) ==
    LET i == Index(s, sep)
    IN  IF i = -1 THEN <<s>>
        ELSE <<SubSeq(s, 1, i)>> \o Split(SubSeq(s, i + Len(sep) + 1, Len(s)), sep)

\* The value an out-of-range index expression stands for (a run-time panic).
OutOfRange == <<"index out of range">>

\* Go's slice indexing a[i], 0-based; out of range panics.
At(a, i) == IF i + 1 \in DOMAIN a THEN a[i + 1] ELSE OutOfRange

(***************************************************************************)
(* S3URISplit                                                              *)
(***************************************************************************)
EmptyStr == <<>>

SplitTuple(b, r, k, e, p) == [bucket |-> b, region |-> r, key |-> k, err |-> e, panic |-> p]

\* return "", "", "", fmt.Errorf("invalid s3-uri")
InvalidS3URI == SplitTuple(EmptyStr, EmptyStr, EmptyStr, "invalid s3-uri", FALSE)

\* the call does not return: an index expression panicked
SplitPanic == SplitTuple(EmptyStr, EmptyStr, EmptyStr, "panic", TRUE)

\* no call made yet
NoSplit == SplitTuple(EmptyStr, EmptyStr, EmptyStr, "none", FALSE)

MinSplittedNoGuard == 5 - 3

\* if len(splitted) < 5
MinSplitted == 5

RegionOfWrongSegment(splitted) == At(splitted, 1)

\* region := splitted[2]
RegionOf(splitted) == At(splitted, 2)

\* key := keySplitted[1]
KeyOf(uri, keySplitted) == At(keySplitted, 1)

AnyEmptyKeyForgotten(bucket, region, key) == bucket = EmptyStr \/ region = EmptyStr

\* if bucket == "" || region == "" || key == ""
AnyEmpty(bucket, region, key) == bucket = EmptyStr \/ region = EmptyStr \/ key = EmptyStr

S3URISplit(uri) ==
    LET splitted == Split(uri, stop)
    IN  IF Len(splitted) < MinSplitted THEN InvalidS3URI
        ELSE
        LET region == RegionOf(splitted)
            bucketString == At(splitted, 0)
        IN  IF OutOfRange \in {region, bucketString} THEN SplitPanic
            ELSE
            LET bucketSplitted == Split(bucketString, colonSlashes)
            IN  IF Len(bucketSplitted) < 2 THEN InvalidS3URI
                ELSE
                LET bucket == At(bucketSplitted, 1)
                    keySplitted == Split(uri, s3URITail)
                IN  IF Len(keySplitted) < 2 THEN InvalidS3URI
                    ELSE
                    LET key == KeyOf(uri, keySplitted)
                    IN  IF OutOfRange \in {bucket, key} THEN SplitPanic
                        ELSE IF AnyEmpty(bucket, region, key) THEN InvalidS3URI
                        ELSE SplitTuple(bucket, region, key, "nil", FALSE)

(***************************************************************************)
(* Inputs of the decomposer: a URI is assembled from six pieces, each      *)
(* drawn from a set that holds the well-formed piece and garbled ones.     *)
(***************************************************************************)
NameChars == {"a", "-"}

Names == UNION {[1..n -> NameChars] : n \in 0..MaxNameLen}

KeyPieces == {<<"k">>, <<".">>, <<"/">>, s3URITail}

RECURSIVE KeysOf(_)
KeysOf(n) ==
    IF n = 0 THEN {EmptyStr}
    ELSE LET shorter == KeysOf(n - 1)
         IN  shorter \cup {p \o q : p \in shorter, q \in KeyPieces}

Keys == KeysOf(MaxKeyPieces)

Prefixes == {<<"s", "3", ":", "/", "/">>, <<"s", "3", ":">>,
             <<"h", "t", "t", "p", ":", "/", "/">>, EmptyStr}

Seps == {<<".", "s", "3", ".">>, <<".", "s", "4", ".">>, <<".">>, EmptyStr}

Tails == {s3URITail,
          <<".", "a", "m", "a", "z", "o", "n", "a", "w", "s", ".", "c", "o", "m">>,
          <<".", "a", "w", "s", ".", "c", "o", "m", "/">>,
          <<".", "x", ".", "a", "m", "a", "z", "o", "n", "a", "w", "s", ".", "c", "o", "m", "/">>}

Pieces(pre, b, sep, r, tail, k) ==
    [prefix |-> pre, bucket |-> b, sep |-> sep, region |-> r, tail |-> tail, key |-> k]

\* the URI of the spec's example and of TestFunctionalityS3URISplit's shape
ExamplePieces ==
    Pieces(<<"s", "3", ":", "/", "/">>,
           <<"b", "u", "c", "k", "e", "t", "-", "x">>,
           <<".", "s", "3", ".">>,
           <<"u", "s", "-", "w", "e", "s", "t", "-", "2">>,
           s3URITail,
           <<"d", "i", "r", "/", "k", "e", "y", ".", "y", "a", "m", "l">>)

NoPieces == Pieces(EmptyStr, EmptyStr, EmptyStr, EmptyStr, EmptyStr, EmptyStr)

SplitInputs ==
    {Pieces(pre, b, sep, r, tail, k) :
        pre \in Prefixes, b \in Names, sep \in Seps, r \in Names, tail \in Tails, k \in Keys}
    \cup {ExamplePieces, NoPieces}

Assemble(p) == p.prefix \o p.bucket \o p.sep \o p.region \o p.tail \o p.key

(***************************************************************************)
(* S3URISplit called directly (as the tests do)                            *)
(***************************************************************************)
SplitCall ==
    /\ sres = NoSplit
    /\ sres' = S3URISplit(suri)
    /\ UNCHANGED <<kind, env, client, calls, parts, suri, life, schemeRet, ctx, backend, hist, io, transports, cmd>>

(***************************************************************************)
(* The environment the providers read                                      *)
(***************************************************************************)
\* what SSL_CERT_FILE names: nothing (unset or ""), a file that cannot be
\* read, a readable file without a PEM certificate, a PEM CA certificate
CertFiles == {"empty", "unreadable", "notpem", "ok"}

Envs ==
    [sslCertFile : CertFiles,   \* os.Getenv("SSL_CERT_FILE")
     sysPool : BOOLEAN,         \* x509.SystemCertPool() succeeds
     accessKeyID : BOOLEAN,     \* AWS_ACCESS_KEY_ID is non-empty
     secretAccessKey : BOOLEAN, \* AWS_SECRET_ACCESS_KEY is non-empty
     defaultChain : BOOLEAN]    \* the SDK's default chain finds credentials elsewhere

DefaultEnv ==
    [sslCertFile |-> "ok", sysPool |-> TRUE, accessKeyID |-> TRUE, secretAccessKey |-> TRUE,
     defaultChain |-> FALSE]

\* the part of the environment each provider reads; the rest is held fixed
EnvsOf(k) ==
    IF k = "http" THEN {DefaultEnv}
    ELSE IF k = "s3"
    THEN {e \in Envs : /\ e.sslCertFile = "ok" /\ e.sysPool
                       /\ e.defaultChain => (~e.accessKeyID \/ ~e.secretAccessKey)}
    ELSE {e \in Envs : e.accessKeyID /\ e.secretAccessKey /\ ~e.defaultChain}

\* myCAPath := os.Getenv("SSL_CERT_FILE")
CAPath(e) == IF e.sslCertFile = "empty" THEN EmptyStr ELSE <<"/", "c", "a">>

(***************************************************************************)
(* crypto/x509 and crypto/tls as the providers use them                    *)
(***************************************************************************)
\* a *x509.CertPool: nil, or the set of certificate authorities it holds
NilPool == [nil |-> TRUE, cas |-> {}]
PoolOf(cas) == [nil |-> FALSE, cas |-> cas]

\* pool, err := x509.SystemCertPool()
SystemCertPool(e) ==
    IF e.sysPool THEN [pool |-> PoolOf({"system"}), err |-> FALSE]
    ELSE [pool |-> NilPool, err |-> TRUE]

\* crt, err := ioutil.ReadFile(myCAPath): crt is "pem", "garbage" or "nil"
ReadFile(e) ==
    IF e.sslCertFile = "ok" THEN [crt |-> "pem", err |-> FALSE]
    ELSE IF e.sslCertFile = "notpem" THEN [crt |-> "garbage", err |-> FALSE]
    ELSE [crt |-> "nil", err |-> TRUE]

\* ok := pool.AppendCertsFromPEM(crt); adding to a nil pool dereferences nil
AppendCertsFromPEM(pool, crt) ==
    IF crt # "pem" THEN [pool |-> pool, ok |-> FALSE, panic |-> FALSE]
    ELSE IF pool.nil THEN [pool |-> pool, ok |-> FALSE, panic |-> TRUE]
    ELSE [pool |-> PoolOf(pool.cas \cup {"ca"}), ok |-> TRUE, panic |-> FALSE]

TLSConfigSkipVerify(pool) == [on |-> TRUE, insecure |-> TRUE, rootCAs |-> pool]

\* &tls.Config{InsecureSkipVerify: false, RootCAs: pool}
TLSConfig(pool) == [on |-> TRUE, insecure |-> FALSE, rootCAs |-> pool]

\* &http.Client{}: no TLS configuration of its own
NoTLS == [on |-> FALSE, insecure |-> FALSE, rootCAs |-> NilPool]

\* who signed the certificate chain the server presents
ServerCerts == {"system", "ca", "other"}

\* the roots a handshake verifies against: a nil RootCAs means the host's
Roots(pool) == IF pool.nil THEN {"system"} ELSE pool.cas

\* the TLS handshake accepts the server's chain
HandshakeOK(tls, cert) == tls.insecure \/ cert \in Roots(tls.rootCAs)

(***************************************************************************)
(* Errors and results                                                      *)
(***************************************************************************)
Result(e, args, v) == [err |-> e, args |-> args, val |-> v]

\* confmap.Retrieved{} / nil
ZeroRetrieved == [set |-> FALSE, conf |-> <<>>]

NoResult == Result("none", <<>>, ZeroRetrieved)

ErrorfWithPartial(msg, args) == Result(msg, args, [set |-> TRUE, conf |-> EmptyStr])

\* fmt.Errorf(msg, args...) returned with the zero Retrieved
Errorf(msg, args) == Result(msg, args, ZeroRetrieved)

ErrUnsupported == "%q uri is not supported by %q provider"
ErrCertPool == "unable to create a cert pool"
ErrReadCA == "unable to read CA from uri %q"
ErrAddCA == "unable to add CA from uri %q into the cert pool"
ErrDownload == "unable to download the file via GET for uri %q"
ErrReadBody == "fail to read the response body from uri %q"
ErrAccessKeys == "unable to fetch access keys for S3 Auth"
ErrNotS3URL == "%q uri is not valid s3-url"
ErrAWSConfig == "AWS SDK's default configuration fail to load"
ErrHeadObject == "HeadObject failed to fetch : Bucket %q, Key %q, Region %q"
ErrS3Fetch == "file in S3 failed to fetch : uri %q"
ErrDecode == "yaml: cannot unmarshal"

(***************************************************************************)
(* Bytes and the decoder                                                   *)
(***************************************************************************)
\* "y" is a byte of well-formed YAML, "x" a byte the decoder rejects,
\* "0" the zero byte of a freshly made buffer
Bodies == UNION {[1..n -> {"y", "x"}] : n \in 0..MaxBody}

\* internal.NewRetrievedFromYAML accepts the bytes
Decodable(body) == \A i \in DOMAIN body : body[i] = "y"

\* internal.NewRetrievedFromYAML(body)
NewRetrievedFromYAML(body) ==
    IF Decodable(body) THEN Result("nil", <<>>, [set |-> TRUE, conf |-> body])
    ELSE Errorf(ErrDecode, <<>>)

Zeros(n) == [i \in 1..n |-> "0"]

\* buf := make([]byte, n); w := manager.NewWriteAtBuffer(buf); the download
\* writes data from offset 0; w.Bytes()
WriteAtBufferBytes(n, data) ==
    IF Len(data) >= n THEN data ELSE data \o Zeros(n - Len(data))

(***************************************************************************)
(* The provider instance and its Retrieve calls                            *)
(***************************************************************************)
\* "http":     httpprovider, the client is a field of the provider
\* "https":    httpsprovider, the trust pool is built inside Retrieve
\* "httpsNew": httpsprovider, the trust pool is built inside New
\* "s3":       s3provider
Kinds == {"http", "https", "httpsNew", "s3"}

Callers == {1}

\* two goroutines calling Retrieve on one provider
ConcCallers == {1, 2}

\* provider.client; state "panic" when New did not return
ClientOf(state, tls) == [state |-> state, tls |-> tls]

NoClient == ClientOf("ok", NoTLS)

\* httpsprovider.New(), pool built in the constructor: every failure is only
\* printed, and the provider is returned with whatever pool resulted
NewHTTPSClient(e) ==
    LET sys == SystemCertPool(e)
        file == ReadFile(e)
        added == AppendCertsFromPEM(sys.pool, file.crt)
    IN  IF added.panic THEN ClientOf("panic", NoTLS)
        ELSE ClientOf("ok", TLSConfig(added.pool))

\* New() of each provider
New(k, e) == IF k = "httpsNew" THEN NewHTTPSClient(e) ELSE NoClient

SchemePrefix(k) ==
    IF k = "s3" THEN s3SchemeName \o <<":">>
    ELSE IF k = "http" THEN httpSchemeName \o colonSlashes
    ELSE httpsSchemeName \o colonSlashes

SchemeNotChecked(k, uri) == TRUE

\* strings.HasPrefix(uri, schemeName+"://"), for s3 schemeName+":"
SchemeMatches(k, uri) == HasPrefix(uri, SchemePrefix(k))

SchemeNameOfWrong(k) == SchemePrefix(k)

\* const schemeName of each provider
SchemeNameOf(k) ==
    IF k = "s3" THEN s3SchemeName ELSE IF k = "http" THEN httpSchemeName ELSE httpsSchemeName

Call(pc, uri, log, tls, cert, status, respBody, body, loc, length, ret) ==
    [pc |-> pc, uri |-> uri, log |-> log, tls |-> tls, cert |-> cert, status |-> status,
     respBody |-> respBody, body |-> body, loc |-> loc, length |-> length, ret |-> ret]

\* no Retrieve in progress
Idle == Call("idle", EmptyStr, <<>>, NoTLS, "none", 0, <<>>, <<>>, NoSplit, 0, NoResult)

\* return from Retrieve
Return(k, events, ret) == [k EXCEPT !.pc = "done", !.log = k.log \o events, !.ret = ret]

HostPath == <<"h", "/", "c">>

CommonURIs ==
    {EmptyStr,
     httpSchemeName \o colonSlashes \o HostPath,
     httpsSchemeName \o colonSlashes \o HostPath,
     httpSchemeName \o <<":">> \o HostPath,
     httpsSchemeName \o <<":">> \o HostPath,
     s3SchemeName,
     s3SchemeName \o <<":">>}

S3URIs ==
    {Assemble(Pieces(pre, b, sep, r, tail, k)) :
        pre \in Prefixes \ {EmptyStr},
        b \in {EmptyStr, <<"b">>},
        sep \in Seps \ {EmptyStr},
        r \in {EmptyStr, <<"r">>},
        tail \in Tails,
        k \in {EmptyStr, <<"k">>, <<"d", "/", "k", ".", "y">>, <<"k">> \o s3URITail \o <<"k">>}}

URIsOf(k) == IF k = "s3" THEN CommonURIs \cup S3URIs ELSE CommonURIs

\* the provider's lifecycle: how often Shutdown was called, what the last
\* call returned, and whether that call came after a Retrieve that was itself
\* made after a Shutdown had returned
LifeOf(n, e, late) == [shutdowns |-> n, err |-> e, late |-> late]

NoLife == LifeOf(0, "none", FALSE)

\* the ctx argument of Retrieve: whether the caller cancelled it while a
\* network call was in flight, and whether the call came after a Shutdown
Context(cancelled, late) == [cancelled |-> cancelled, afterShutdown |-> late]

Background == Context(FALSE, FALSE)

\* Scheme() not called yet
NoScheme == [name |-> EmptyStr, shutdowns |-> 0]

\* with a fixed backend, what the server or bucket holds under a URI
ContentOf(uri) ==
    IF uri = EmptyStr THEN EmptyStr
    ELSE IF uri[Len(uri)] = "c" THEN <<"y">>
    ELSE IF uri[Len(uri)] = "d" THEN <<"y", "y">>
    ELSE <<"x">>

\* the backend may answer a request for uri with data
Serves(uri, data) == backend = "any" \/ data = ContentOf(uri)

\* the caller keeps nothing of its previous Retrieve
NoHist == [on |-> FALSE, prev |-> NoResult, uri |-> EmptyStr]

\* the watcher argument of Retrieve (nil or a callback), how often it was
\* invoked, and the requests the call sent to AWS
IOOf(watcher, invoked, requests) ==
    [watcher |-> watcher, invoked |-> invoked, requests |-> requests]

NoIO == IOOf("nil", 0, <<>>)

\* the watcher arguments a caller passes: nil (as every test does) or a callback
Watchers == {"nil", "fn"}

\* transports created and not closed, now and when Shutdown last returned
TransportsOf(open, atShutdown) == [open |-> open, atShutdown |-> atShutdown]

\* New(): the https provider that builds its client in New creates one
\* transport; http.Client{} has none of its own; the others create none
NewTransports(k) == TransportsOf(IF k = "httpsNew" THEN 1 ELSE 0, 0)

\* var newCtx context.Context: the nil context
NilCtx == [nil |-> TRUE, parent |-> "none", uris |-> <<>>]

\* context.WithValue(parent, "configURIs", configURIs)
WithValue(parent, uris) == [nil |-> FALSE, parent |-> parent, uris |-> uris]

\* the command: set.ConfigProvider as the closure sees it, the closure's
\* newCtx, and of the last RunE: cmd.Context(), cfgSet.MapConverters, the
\* context handed to col.Run and what RunE returned
Command(pc, provider, newCtx, runs, parent, converters, runCtx, ret) ==
    [pc |-> pc, provider |-> provider, newCtx |-> newCtx, runs |-> runs, parent |-> parent,
     converters |-> converters, runCtx |-> runCtx, ret |-> ret]

\* no command built
NoCmd == Command("none", "nil", NilCtx, 0, "none", <<>>, NilCtx, "none")

\* the caller keeps the result and the URI of the call that just ended
Keep(h, k) ==
    IF h.on /\ k.pc = "done" THEN [on |-> TRUE, prev |-> k.ret, uri |-> k.uri] ELSE h

RetrieveAfterShutdownPanics(c, uri, w) ==
    /\ client.state = "ok"
    /\ calls[c].pc \in {"idle", "done"}
    /\ calls' = [calls EXCEPT ![c] =
          [Idle EXCEPT !.uri = uri, !.pc = IF life.shutdowns > 0 THEN "panic" ELSE "get"]]
    /\ ctx' = [ctx EXCEPT ![c] = Context(FALSE, life.shutdowns > 0)]
    /\ io' = [io EXCEPT ![c] = IOOf(w, io[c].invoked, <<>>)]
    /\ hist' = Keep(hist, calls[c])
    /\ UNCHANGED <<kind, env, client, parts, suri, sres, life, schemeRet, backend, transports, cmd>>

RetrieveCached(c, uri, w) ==
    /\ client.state = "ok"
    /\ calls[c].pc \in {"idle", "done"}
    /\ LET k == [Idle EXCEPT !.uri = uri]
           next == IF kind = "http" THEN "get"
                   ELSE IF kind = "https" THEN "pool"
                   ELSE IF kind = "httpsNew" THEN "get"
                   ELSE "creds"
       IN  calls' = [calls EXCEPT ![c] =
              IF ~SchemeMatches(kind, uri)
              THEN Return(k, <<>>, Errorf(ErrUnsupported, <<uri, SchemeNameOf(kind)>>))
              ELSE IF calls[c].pc = "done" /\ calls[c].uri = uri /\ calls[c].ret.err = "nil"
              THEN Return(k, <<>>, calls[c].ret)
              ELSE [k EXCEPT !.pc = next,
                             !.tls = IF kind = "httpsNew" THEN client.tls ELSE NoTLS]]
    /\ ctx' = [ctx EXCEPT ![c] = Context(FALSE, life.shutdowns > 0)]
    /\ io' = [io EXCEPT ![c] = IOOf(w, io[c].invoked, <<>>)]
    /\ hist' = Keep(hist, calls[c])
    /\ UNCHANGED <<kind, env, client, parts, suri, sres, life, schemeRet, backend, transports, cmd>>

\* Retrieve(ctx, uri, watcher); first step of every Retrieve: the scheme check
Retrieve(c, uri, w) ==
    /\ client.state = "ok"
    /\ calls[c].pc \in {"idle", "done"}
    /\ LET k == [Idle EXCEPT !.uri = uri]
           next == IF kind = "http" THEN "get"
                   ELSE IF kind = "https" THEN "pool"
                   ELSE IF kind = "httpsNew" THEN "get"
                   ELSE "creds"
       IN  calls' = [calls EXCEPT ![c] =
              IF ~SchemeMatches(kind, uri)
              THEN Return(k, <<>>, Errorf(ErrUnsupported, <<uri, SchemeNameOf(kind)>>))
              ELSE [k EXCEPT !.pc = next,
                             !.tls = IF kind = "httpsNew" THEN client.tls ELSE NoTLS]]
    /\ ctx' = [ctx EXCEPT ![c] = Context(FALSE, life.shutdowns > 0)]
    /\ io' = [io EXCEPT ![c] = IOOf(w, io[c].invoked, <<>>)]
    /\ hist' = Keep(hist, calls[c])
    /\ UNCHANGED <<kind, env, client, parts, suri, sres, life, schemeRet, backend, transports, cmd>>

HTTPSPoolErrorsIgnored(e) ==
    LET sys == SystemCertPool(e)
        file == ReadFile(e)
        added == AppendCertsFromPEM(sys.pool, file.crt)
    IN  [events |-> <<"Getenv", "SystemCertPool", "ReadFile", "AppendCertsFromPEM">>,
         err |-> "nil", args |-> <<>>, pool |-> added.pool]

\* httpsprovider.Retrieve: create a certificate pool, then add the root CA
HTTPSPool(e) ==
    LET sys == SystemCertPool(e)
        file == ReadFile(e)
        added == AppendCertsFromPEM(sys.pool, file.crt)
    IN  IF sys.err
        THEN [events |-> <<"Getenv", "SystemCertPool">>,
              err |-> ErrCertPool, args |-> <<>>, pool |-> NilPool]
        ELSE IF file.err
        THEN [events |-> <<"Getenv", "SystemCertPool", "ReadFile">>,
              err |-> ErrReadCA, args |-> <<CAPath(e)>>, pool |-> NilPool]
        ELSE IF ~added.ok
        THEN [events |-> <<"Getenv", "SystemCertPool", "ReadFile", "AppendCertsFromPEM">>,
              err |-> ErrAddCA, args |-> <<CAPath(e)>>, pool |-> NilPool]
        ELSE [events |-> <<"Getenv", "SystemCertPool", "ReadFile", "AppendCertsFromPEM">>,
              err |-> "nil", args |-> <<>>, pool |-> added.pool]

\* client := &http.Client{Transport: &http.Transport{...}}: one more transport
Created(t) == [t EXCEPT !.open = IF @ < MaxTransports THEN @ + 1 ELSE @]

\* httpsprovider.Retrieve, pool built per call: the pool and the client
BuildPool(c) ==
    /\ kind = "https"
    /\ calls[c].pc = "pool"
    /\ LET k == calls[c]
           p == HTTPSPool(env)
       IN  calls' = [calls EXCEPT ![c] =
              IF p.err # "nil" THEN Return(k, p.events, Errorf(p.err, p.args))
              ELSE [k EXCEPT !.pc = "get", !.log = k.log \o p.events, !.tls = TLSConfig(p.pool)]]
    /\ transports' = IF HTTPSPool(env).err # "nil" THEN transports
                     ELSE Created(transports)
    /\ UNCHANGED <<kind, env, client, parts, suri, sres, life, schemeRet, ctx, backend, hist, io, cmd>>

\* the status codes a server answers with
Statuses == {200, 399, 400, 403, 404, 500}

GetRetriedOnce(c) ==
    /\ kind \in {"http", "https", "httpsNew"}
    /\ calls[c].pc = "get"
    /\ \E cert \in (IF kind = "http" THEN {"none"} ELSE ServerCerts) :
       \E failed \in BOOLEAN, status \in Statuses, data \in Bodies :
          /\ (kind # "http" /\ ~HandshakeOK(calls[c].tls, cert)) => failed
          /\ failed => (status = 200 /\ data = <<>>)
          /\ ~failed => Serves(calls[c].uri, data)
          /\ LET k == [calls[c] EXCEPT !.cert = cert]
             IN  calls' = [calls EXCEPT ![c] =
                    IF failed /\ ~(\E i \in DOMAIN k.log : k.log[i] = "Get")
                    THEN [k EXCEPT !.log = k.log \o <<"Get">>]
                    ELSE IF failed THEN Return(k, <<"Get">>, Errorf(ErrDownload, <<k.uri>>))
                    ELSE [k EXCEPT !.pc = "read", !.log = k.log \o <<"Get">>,
                                   !.status = status, !.respBody = data]]
    /\ UNCHANGED <<kind, env, client, parts, suri, sres, life, schemeRet, ctx, backend, hist, io, transports, cmd>>

\* client.Get(uri): the handshake (https), then a transport error or a response
Get(c) ==
    /\ kind \in {"http", "https", "httpsNew"}
    /\ calls[c].pc = "get"
    /\ \E cert \in (IF kind = "http" THEN {"none"} ELSE ServerCerts) :
       \E failed \in BOOLEAN, status \in Statuses, data \in Bodies :
          /\ (kind # "http" /\ ~HandshakeOK(calls[c].tls, cert)) => failed
          /\ failed => (status = 200 /\ data = <<>>)
          /\ ~failed => Serves(calls[c].uri, data)
          /\ LET k == [calls[c] EXCEPT !.cert = cert]
             IN  calls' = [calls EXCEPT ![c] =
                    IF failed THEN Return(k, <<"Get">>, Errorf(ErrDownload, <<k.uri>>))
                    ELSE [k EXCEPT !.pc = "read", !.log = k.log \o <<"Get">>,
                                   !.status = status, !.respBody = data]]
    /\ UNCHANGED <<kind, env, client, parts, suri, sres, life, schemeRet, ctx, backend, hist, io, transports, cmd>>

ResponseBodyShared(c) ==
    calls[CHOOSE d \in DOMAIN calls : \A e \in DOMAIN calls : d <= e].respBody

\* resp.Body: the body of the response this call's Get returned
ResponseBody(c) == calls[c].respBody

ReadAllFailureLeaksBody(c) ==
    /\ calls[c].pc = "read"
    /\ \E failed \in BOOLEAN :
          LET k == calls[c]
          IN  calls' = [calls EXCEPT ![c] =
                 IF failed THEN Return(k, <<"ReadAll">>, Errorf(ErrReadBody, <<k.uri>>))
                 ELSE [k EXCEPT !.pc = "decode", !.log = k.log \o <<"ReadAll">>,
                                !.body = ResponseBody(c)]]
    /\ UNCHANGED <<kind, env, client, parts, suri, sres, life, schemeRet, ctx, backend, hist, io, transports, cmd>>

ReadAllFailureAsDownload(c) ==
    /\ calls[c].pc = "read"
    /\ \E failed \in BOOLEAN :
          LET k == calls[c]
          IN  calls' = [calls EXCEPT ![c] =
                 IF failed THEN Return(k, <<"ReadAll", "Close">>, Errorf(ErrDownload, <<k.uri>>))
                 ELSE [k EXCEPT !.pc = "decode", !.log = k.log \o <<"ReadAll">>,
                                !.body = ResponseBody(c)]]
    /\ UNCHANGED <<kind, env, client, parts, suri, sres, life, schemeRet, ctx, backend, hist, io, transports, cmd>>

\* body, err := ioutil.ReadAll(resp.Body), with the deferred Close on return
ReadAll(c) ==
    /\ calls[c].pc = "read"
    /\ \E failed \in BOOLEAN :
          LET k == calls[c]
          IN  calls' = [calls EXCEPT ![c] =
                 IF failed THEN Return(k, <<"ReadAll", "Close">>, Errorf(ErrReadBody, <<k.uri>>))
                 ELSE [k EXCEPT !.pc = "decode", !.log = k.log \o <<"ReadAll">>,
                                !.body = ResponseBody(c)]]
    /\ UNCHANGED <<kind, env, client, parts, suri, sres, life, schemeRet, ctx, backend, hist, io, transports, cmd>>

DecodeErrorSwallowed(c) ==
    /\ kind \in {"http", "https", "httpsNew"}
    /\ calls[c].pc = "decode"
    /\ LET k == calls[c]
       IN  calls' = [calls EXCEPT ![c] =
              Return(k, <<"NewRetrievedFromYAML", "Close">>,
                     Result("nil", <<>>, [set |-> TRUE, conf |-> EmptyStr]))]
    /\ UNCHANGED <<kind, env, client, parts, suri, sres, life, schemeRet, ctx, backend, hist, io, transports, cmd>>

DecodeNotifiesWatcher(c) ==
    /\ kind \in {"http", "https", "httpsNew"}
    /\ calls[c].pc = "decode"
    /\ LET k == calls[c]
       IN  calls' = [calls EXCEPT ![c] =
              Return(k, <<"NewRetrievedFromYAML", "Close">>, NewRetrievedFromYAML(k.body))]
    /\ io' = [io EXCEPT ![c].invoked = IF io[c].watcher = "nil" THEN @ ELSE 4 - 3]
    /\ UNCHANGED <<kind, env, client, parts, suri, sres, life, schemeRet, ctx, backend, hist, transports, cmd>>

\* return internal.NewRetrievedFromYAML(body), then the deferred Close
Decode(c) ==
    /\ kind \in {"http", "https", "httpsNew"}
    /\ calls[c].pc = "decode"
    /\ LET k == calls[c]
       IN  calls' = [calls EXCEPT ![c] =
              Return(k, <<"NewRetrievedFromYAML", "Close">>, NewRetrievedFromYAML(k.body))]
    /\ UNCHANGED <<kind, env, client, parts, suri, sres, life, schemeRet, ctx, backend, hist, io, transports, cmd>>

(***************************************************************************)
(* s3provider.Retrieve                                                     *)
(***************************************************************************)
CheckAccessKeysSkipped(c) ==
    /\ kind = "s3"
    /\ calls[c].pc = "creds"
    /\ calls' = [calls EXCEPT ![c] = [calls[c] EXCEPT !.pc = "split"]]
    /\ UNCHANGED <<kind, env, client, parts, suri, sres, life, schemeRet, ctx, backend, hist, io, transports, cmd>>

\* if os.Getenv("AWS_ACCESS_KEY_ID") == "" || os.Getenv("AWS_SECRET_ACCESS_KEY") == ""
CheckAccessKeys(c) ==
    /\ kind = "s3"
    /\ calls[c].pc = "creds"
    /\ LET k == calls[c]
       IN  calls' = [calls EXCEPT ![c] =
              IF ~env.accessKeyID
              THEN Return(k, <<"Getenv">>, Errorf(ErrAccessKeys, <<>>))
              ELSE IF ~env.secretAccessKey
              THEN Return(k, <<"Getenv", "Getenv">>, Errorf(ErrAccessKeys, <<>>))
              ELSE [k EXCEPT !.pc = "split", !.log = k.log \o <<"Getenv", "Getenv">>]]
    /\ UNCHANGED <<kind, env, client, parts, suri, sres, life, schemeRet, ctx, backend, hist, io, transports, cmd>>

SplitURIErrorIgnored(c) ==
    /\ kind = "s3"
    /\ calls[c].pc = "split"
    /\ LET k == calls[c]
           loc == S3URISplit(k.uri)
       IN  calls' = [calls EXCEPT ![c] =
              [k EXCEPT !.pc = "loadcfg", !.log = k.log \o <<"S3URISplit">>, !.loc = loc]]
    /\ UNCHANGED <<kind, env, client, parts, suri, sres, life, schemeRet, ctx, backend, hist, io, transports, cmd>>

\* bucket, region, key, err := S3URISplit(uri)
SplitURI(c) ==
    /\ kind = "s3"
    /\ calls[c].pc = "split"
    /\ LET k == calls[c]
           loc == S3URISplit(k.uri)
       IN  calls' = [calls EXCEPT ![c] =
              IF loc.panic
              THEN [k EXCEPT !.pc = "panic", !.log = k.log \o <<"S3URISplit">>, !.loc = loc]
              ELSE IF loc.err # "nil"
              THEN [Return(k, <<"S3URISplit">>, Errorf(ErrNotS3URL, <<k.uri>>)) EXCEPT !.loc = loc]
              ELSE [k EXCEPT !.pc = "loadcfg", !.log = k.log \o <<"S3URISplit">>, !.loc = loc]]
    /\ UNCHANGED <<kind, env, client, parts, suri, sres, life, schemeRet, ctx, backend, hist, io, transports, cmd>>

\* a request to AWS and what it names
Request(op, bucket, key, region) == [op |-> op, bucket |-> bucket, key |-> key, region |-> region]

\* config.WithRegion(region)
WithRegion(loc) == Request("LoadDefaultConfig", EmptyStr, EmptyStr, loc.region)

\* &s3.HeadObjectInput{Bucket: aws.String(bucket), Key: aws.String(key)}
HeadObjectInput(loc) == Request("HeadObject", loc.bucket, loc.key, EmptyStr)

GetObjectInputSwapped(loc) == Request("Download", loc.key, loc.bucket, EmptyStr)

\* &s3.GetObjectInput{Bucket: aws.String(bucket), Key: aws.String(key)}
GetObjectInput(loc) == Request("Download", loc.bucket, loc.key, EmptyStr)

\* the call sends the request r
Sent(c, r) == [io EXCEPT ![c].requests = Append(@, r)]

\* cfg, err := config.LoadDefaultConfig(context.TODO(), config.WithRegion(region))
LoadDefaultConfig(c) ==
    /\ kind = "s3"
    /\ calls[c].pc = "loadcfg"
    /\ \E failed \in BOOLEAN :
          LET k == calls[c]
          IN  calls' = [calls EXCEPT ![c] =
                 IF failed THEN Return(k, <<"LoadDefaultConfig">>, Errorf(ErrAWSConfig, <<>>))
                 ELSE [k EXCEPT !.pc = "head", !.log = k.log \o <<"LoadDefaultConfig">>]]
    /\ io' = Sent(c, WithRegion(calls[c].loc))
    /\ UNCHANGED <<kind, env, client, parts, suri, sres, life, schemeRet, ctx, backend, hist, transports, cmd>>

\* headObject, err := client.HeadObject(...): the object's length at that time
HeadObject(c) ==
    /\ kind = "s3"
    /\ calls[c].pc = "head"
    /\ \E failed \in BOOLEAN, n \in 0..MaxBody :
          /\ failed => n = 0
          /\ ~failed => (backend = "any" \/ n = Len(ContentOf(calls[c].uri)))
          /\ LET k == calls[c]
             IN  calls' = [calls EXCEPT ![c] =
                    IF failed
                    THEN Return(k, <<"HeadObject">>,
                                Errorf(ErrHeadObject, <<k.loc.bucket, k.loc.key, k.loc.region>>))
                    ELSE [k EXCEPT !.pc = "download", !.log = k.log \o <<"HeadObject">>,
                                   !.length = n]]
    /\ io' = Sent(c, HeadObjectInput(calls[c].loc))
    /\ UNCHANGED <<kind, env, client, parts, suri, sres, life, schemeRet, ctx, backend, hist, transports, cmd>>

\* buf := make([]byte, int(headObject.ContentLength)); downloader.Download(w, ...):
\* the object as it is at the time of the download
Download(c) ==
    /\ kind = "s3"
    /\ calls[c].pc = "download"
    /\ \E failed \in BOOLEAN, data \in Bodies :
          /\ failed => data = <<>>
          /\ ~failed => Serves(calls[c].uri, data)
          /\ LET k == calls[c]
             IN  calls' = [calls EXCEPT ![c] =
                    IF failed THEN Return(k, <<"Download">>, Errorf(ErrS3Fetch, <<k.uri>>))
                    ELSE [k EXCEPT !.pc = "s3decode", !.log = k.log \o <<"Download">>,
                                   !.respBody = data,
                                   !.body = WriteAtBufferBytes(k.length, data)]]
    /\ io' = Sent(c, GetObjectInput(calls[c].loc))
    /\ UNCHANGED <<kind, env, client, parts, suri, sres, life, schemeRet, ctx, backend, hist, transports, cmd>>

\* return internal.NewRetrievedFromYAML(w.Bytes())
DecodeObject(c) ==
    /\ kind = "s3"
    /\ calls[c].pc = "s3decode"
    /\ LET k == calls[c]
       IN  calls' = [calls EXCEPT ![c] =
              Return(k, <<"NewRetrievedFromYAML">>, NewRetrievedFromYAML(k.body))]
    /\ UNCHANGED <<kind, env, client, parts, suri, sres, life, schemeRet, ctx, backend, hist, io, transports, cmd>>

(***************************************************************************)
(* Shutdown, Scheme and the caller's context                               *)
(***************************************************************************)
ShutdownTwiceFails(l) == IF l.shutdowns > 0 THEN "provider already shut down" ELSE "nil"

\* func (*provider) Shutdown(context.Context) error { return nil }
ShutdownReturn(l) == "nil"

\* a Retrieve made after a Shutdown has returned
LateRetrieveDone == \E c \in DOMAIN calls : ctx[c].afterShutdown /\ calls[c].pc = "done"

\* fp.Shutdown(ctx)
Shutdown ==
    /\ client.state = "ok"
    /\ life.shutdowns < MaxShutdowns
    /\ life' = LifeOf(life.shutdowns + 1, ShutdownReturn(life), LateRetrieveDone)
    /\ transports' = TransportsOf(transports.open, transports.open)
    /\ UNCHANGED <<kind, env, client, calls, parts, suri, sres, schemeRet, ctx, backend, hist, io, cmd>>

\* fp.Scheme()
Scheme ==
    /\ client.state = "ok"
    /\ schemeRet' = [name |-> SchemeNameOf(kind), shutdowns |-> life.shutdowns]
    /\ UNCHANGED <<kind, env, client, calls, parts, suri, sres, life, ctx, backend, hist, io, transports, cmd>>

\* the caller cancels the context it passed to Retrieve while the GET, the
\* HeadObject or the Download of that call is in flight; Retrieve dropped the
\* context (parameter _), so no step of the call reads it
Cancel(c) ==
    /\ calls[c].pc \in {"get", "head", "download"}
    /\ ~ctx[c].cancelled
    /\ ctx' = [ctx EXCEPT ![c].cancelled = TRUE]
    /\ UNCHANGED <<kind, env, client, calls, parts, suri, sres, life, schemeRet, backend, hist, io, transports, cmd>>

\* a well-formed s3 URI for the object key k
S3Object(k) ==
    s3SchemeName \o colonSlashes \o <<"b">> \o stop \o s3SchemeName \o stop \o <<"r">>
        \o s3URITail \o k

\* a few URIs per provider: another scheme, the bare prefix, three objects
FewURIs(k) ==
    IF k = "s3"
    THEN {EmptyStr, SchemePrefix(k), S3Object(<<"c">>), S3Object(<<"d">>), S3Object(<<"x">>)}
    ELSE {EmptyStr, SchemePrefix(k),
          SchemePrefix(k) \o <<"h", "/", "c">>,
          SchemePrefix(k) \o <<"h", "/", "d">>,
          SchemePrefix(k) \o <<"h", "/", "x">>}

(***************************************************************************)
(* NewCommand                                                              *)
(***************************************************************************)
\* cmd.Context(): the context Execute or ExecuteContext gave the command
CmdContexts == {"background", "signal", "timeout"}

\* getConfigFlag(flagSet): the --config values
ConfigFlags == {<<>>, <<"a">>, <<"a", "b">>}

\* newDefaultConfigProviderSettings(configURIs).MapConverters
DefaultConverters == {<<>>, <<"expand">>}

\* NewCommand(set): set.ConfigProvider supplied by the caller or nil
NewCommand(supplied) ==
    /\ cmd.pc = "none"
    /\ cmd' = Command("built", IF supplied THEN "supplied" ELSE "nil", NilCtx, 0, "none",
                      <<>>, NilCtx, "none")
    /\ UNCHANGED <<kind, env, client, calls, parts, suri, sres, life, schemeRet, ctx, backend, hist, io, transports>>

\* the context RunE hands to col.Run: the closure's newCtx, which only the
\* branch for a nil set.ConfigProvider assigns
RunContext(c, parent, uris) == IF c.provider = "nil" THEN WithValue(parent, uris) ELSE c.newCtx

\* rootCmd.RunE(cmd, args)
RunE(parent, uris, defaults, providerErr, newErr) ==
    /\ cmd.pc \in {"built", "ran"}
    /\ cmd.runs < MaxRuns
    /\ LET build == cmd.provider = "nil"
           newCtx == RunContext(cmd, parent, uris)
           converters == IF build THEN <<"overwriteproperties">> \o defaults ELSE <<>>
           provider == IF ~build THEN cmd.provider
                       ELSE IF providerErr THEN "nil" ELSE "built"
       IN  cmd' =
              IF build /\ providerErr
              THEN Command("ran", provider, newCtx, cmd.runs + 1, parent, converters,
                           NilCtx, "NewConfigProvider failed")
              ELSE IF newErr
              THEN Command("ran", provider, newCtx, cmd.runs + 1, parent, converters,
                           NilCtx, "New failed")
              ELSE Command("ran", provider, newCtx, cmd.runs + 1, parent, converters,
                           newCtx, "col.Run")
    /\ UNCHANGED <<kind, env, client, calls, parts, suri, sres, life, schemeRet, ctx, backend, hist, io, transports>>

(***************************************************************************)
(* Specifications                                                          *)
(***************************************************************************)
\* a provider of some kind, constructed by New in some environment
Init ==
    /\ kind \in Kinds
    /\ env \in EnvsOf(kind)
    /\ client = New(kind, env)
    /\ calls = [c \in Callers |-> Idle]
    /\ parts = NoPieces
    /\ suri = EmptyStr
    /\ sres = NoSplit
    /\ life = NoLife
    /\ schemeRet = NoScheme
    /\ ctx = [c \in Callers |-> Background]
    /\ backend = "any"
    /\ hist = NoHist
    /\ io = [c \in DOMAIN calls |-> NoIO]
    /\ transports = NewTransports(kind)
    /\ cmd = NoCmd

Next ==
    \/ \E c \in Callers : \E uri \in URIsOf(kind) : Retrieve(c, uri, "nil")
    \/ \E c \in Callers : BuildPool(c)
    \/ \E c \in Callers : Get(c)
    \/ \E c \in Callers : ReadAll(c)
    \/ \E c \in Callers : Decode(c)
    \/ \E c \in Callers : CheckAccessKeys(c)
    \/ \E c \in Callers : SplitURI(c)
    \/ \E c \in Callers : LoadDefaultConfig(c)
    \/ \E c \in Callers : HeadObject(c)
    \/ \E c \in Callers : Download(c)
    \/ \E c \in Callers : DecodeObject(c)

Spec == Init /\ [][Next]_vars

\* the whole interface of one provider: Retrieve, Scheme and Shutdown in any
\* order, and the caller cancelling its context
NextLife ==
    \/ \E c \in Callers : \E uri \in FewURIs(kind) : Retrieve(c, uri, "nil")
    \/ \E c \in Callers : BuildPool(c)
    \/ \E c \in Callers : Get(c)
    \/ \E c \in Callers : ReadAll(c)
    \/ \E c \in Callers : Decode(c)
    \/ \E c \in Callers : CheckAccessKeys(c)
    \/ \E c \in Callers : SplitURI(c)
    \/ \E c \in Callers : LoadDefaultConfig(c)
    \/ \E c \in Callers : HeadObject(c)
    \/ \E c \in Callers : Download(c)
    \/ \E c \in Callers : DecodeObject(c)
    \/ \E c \in Callers : Cancel(c)
    \/ Shutdown
    \/ Scheme

SpecLife == Init /\ [][NextLife]_vars

\* one provider shared by two callers, against servers and a bucket whose
\* content does not change
InitConc ==
    /\ kind \in Kinds
    /\ env = DefaultEnv
    /\ client = New(kind, env)
    /\ calls = [c \in ConcCallers |-> Idle]
    /\ parts = NoPieces
    /\ suri = EmptyStr
    /\ sres = NoSplit
    /\ life = NoLife
    /\ schemeRet = NoScheme
    /\ ctx = [c \in ConcCallers |-> Background]
    /\ backend = "fixed"
    /\ hist = NoHist
    /\ io = [c \in DOMAIN calls |-> NoIO]
    /\ transports = NewTransports(kind)
    /\ cmd = NoCmd

NextConc ==
    \/ \E c \in ConcCallers : \E uri \in FewURIs(kind) : Retrieve(c, uri, "nil")
    \/ \E c \in ConcCallers : BuildPool(c)
    \/ \E c \in ConcCallers : Get(c)
    \/ \E c \in ConcCallers : ReadAll(c)
    \/ \E c \in ConcCallers : Decode(c)
    \/ \E c \in ConcCallers : CheckAccessKeys(c)
    \/ \E c \in ConcCallers : SplitURI(c)
    \/ \E c \in ConcCallers : LoadDefaultConfig(c)
    \/ \E c \in ConcCallers : HeadObject(c)
    \/ \E c \in ConcCallers : Download(c)
    \/ \E c \in ConcCallers : DecodeObject(c)

SpecConc == InitConc /\ [][NextConc]_vars

\* Retrieve called with and without a watcher, and Shutdown
NextWatch ==
    \/ \E c \in Callers : \E uri \in FewURIs(kind), w \in Watchers : Retrieve(c, uri, w)
    \/ \E c \in Callers : BuildPool(c)
    \/ \E c \in Callers : Get(c)
    \/ \E c \in Callers : ReadAll(c)
    \/ \E c \in Callers : Decode(c)
    \/ \E c \in Callers : CheckAccessKeys(c)
    \/ \E c \in Callers : SplitURI(c)
    \/ \E c \in Callers : LoadDefaultConfig(c)
    \/ \E c \in Callers : HeadObject(c)
    \/ \E c \in Callers : Download(c)
    \/ \E c \in Callers : DecodeObject(c)
    \/ Shutdown

SpecWatch == Init /\ [][NextWatch]_vars

\* one caller that calls Retrieve again and again against servers and a
\* bucket whose content changes, and keeps each result to compare the next with
InitCache ==
    /\ kind \in Kinds
    /\ env = DefaultEnv
    /\ client = New(kind, env)
    /\ calls = [c \in Callers |-> Idle]
    /\ parts = NoPieces
    /\ suri = EmptyStr
    /\ sres = NoSplit
    /\ life = NoLife
    /\ schemeRet = NoScheme
    /\ ctx = [c \in Callers |-> Background]
    /\ backend = "any"
    /\ hist = [NoHist EXCEPT !.on = TRUE]
    /\ io = [c \in DOMAIN calls |-> NoIO]
    /\ transports = NewTransports(kind)
    /\ cmd = NoCmd

NextCache ==
    \/ \E c \in Callers : \E uri \in FewURIs(kind) : Retrieve(c, uri, "nil")
    \/ \E c \in Callers : BuildPool(c)
    \/ \E c \in Callers : Get(c)
    \/ \E c \in Callers : ReadAll(c)
    \/ \E c \in Callers : Decode(c)
    \/ \E c \in Callers : CheckAccessKeys(c)
    \/ \E c \in Callers : SplitURI(c)
    \/ \E c \in Callers : LoadDefaultConfig(c)
    \/ \E c \in Callers : HeadObject(c)
    \/ \E c \in Callers : Download(c)
    \/ \E c \in Callers : DecodeObject(c)

SpecCache == InitCache /\ [][NextCache]_vars

\* a command is built from collector settings and run
InitCmd ==
    /\ kind = "http"
    /\ env = DefaultEnv
    /\ client = New(kind, env)
    /\ calls = [c \in Callers |-> Idle]
    /\ parts = NoPieces
    /\ suri = EmptyStr
    /\ sres = NoSplit
    /\ life = NoLife
    /\ schemeRet = NoScheme
    /\ ctx = [c \in Callers |-> Background]
    /\ backend = "any"
    /\ hist = NoHist
    /\ io = [c \in DOMAIN calls |-> NoIO]
    /\ transports = NewTransports(kind)
    /\ cmd = NoCmd

NextCmd ==
    \/ \E supplied \in BOOLEAN : NewCommand(supplied)
    \/ \E parent \in CmdContexts, uris \in ConfigFlags, defaults \in DefaultConverters,
          providerErr \in BOOLEAN, newErr \in BOOLEAN :
          RunE(parent, uris, defaults, providerErr, newErr)

SpecCmd == InitCmd /\ [][NextCmd]_vars

\* S3URISplit applied to one drawn URI
InitSplit ==
    /\ kind = "s3"
    /\ env = DefaultEnv
    /\ client = NoClient
    /\ calls = [c \in Callers |-> Idle]
    /\ \/ \E pre \in Prefixes, b \in Names, sep \in Seps, r \in Names, tail \in Tails,
               k \in Keys : parts = Pieces(pre, b, sep, r, tail, k)
       \/ parts \in {ExamplePieces, NoPieces}
    /\ suri = Assemble(parts)
    /\ sres = NoSplit
    /\ life = NoLife
    /\ schemeRet = NoScheme
    /\ ctx = [c \in Callers |-> Background]
    /\ backend = "any"
    /\ hist = NoHist
    /\ io = [c \in DOMAIN calls |-> NoIO]
    /\ transports = NewTransports(kind)
    /\ cmd = NoCmd

NextSplit == SplitCall

SpecSplit == InitSplit /\ [][NextSplit]_vars

(***************************************************************************)
(* Properties                                                              *)
(***************************************************************************)
InLog(k, e) == \E i \in DOMAIN k.log : k.log[i] = e

Occurs(sub, s) == \E i \in 1..(Len(s) - Len(sub) + 1) : SubSeq(s, i, i + Len(sub) - 1) = sub

TailText == <<".", "a", "m", "a", "z", "o", "n", "a", "w", "s", ".", "c", "o", "m", "/">>

NameAlphabet ==
    {"a", "b", "c", "d", "e", "f", "g", "h", "i", "j", "k", "l", "m", "n", "o", "p", "q",
     "r", "s", "t", "u", "v", "w", "x", "y", "z",
     "0", "1", "2", "3", "4", "5", "6", "7", "8", "9", "-"}

IsName(s) == s # <<>> /\ \A i \in DOMAIN s : s[i] \in NameAlphabet

ClaimedPrefix ==
    IF kind = "s3" THEN <<"s", "3", ":">>
    ELSE IF kind = "http" THEN <<"h", "t", "t", "p", ":", "/", "/">>
    ELSE <<"h", "t", "t", "p", "s", ":", "/", "/">>

\* C1: a URI that does not start with the provider's scheme prefix (the empty
\* string included) makes Retrieve return the unsupported-scheme error before
\* any other step: nothing is read, requested or called.
UnsupportedSchemeFirst ==
    \A c \in Callers :
        LET k == calls[c]
        IN  (k.pc # "idle" /\ ~HasPrefix(k.uri, ClaimedPrefix))
                => /\ k.pc = "done"
                   /\ k.ret.err = ErrUnsupported
                   /\ k.ret.args[1] = k.uri
                   /\ k.log = <<>>

UnsupportedSchemeSeen ==
    \E c \in Callers :
        /\ calls[c].pc = "done"
        /\ calls[c].uri = <<>>
        /\ calls[c].ret.err = ErrUnsupported
        /\ calls[c].log = <<>>

\* C2: for a bucket and a region made of letters, digits and '-', and a
\* non-empty key without ".amazonaws.com/", S3URISplit of
\* "s3://" bucket ".s3." region ".amazonaws.com/" key returns exactly
\* (bucket, region, key) and no error; so does the spec's example URI.
SplitRoundTrip ==
    /\ (/\ sres # NoSplit
        /\ parts.prefix = <<"s", "3", ":", "/", "/">>
        /\ parts.sep = <<".", "s", "3", ".">>
        /\ parts.tail = TailText
        /\ IsName(parts.bucket)
        /\ IsName(parts.region)
        /\ parts.key # <<>>
        /\ ~Occurs(TailText, parts.key))
       => sres = SplitTuple(parts.bucket, parts.region, parts.key, "nil", FALSE)
    /\ (/\ sres # NoSplit
        /\ suri = <<"s", "3", ":", "/", "/", "b", "u", "c", "k", "e", "t", "-", "x",
                    ".", "s", "3", ".", "u", "s", "-", "w", "e", "s", "t", "-", "2">>
                  \o TailText
                  \o <<"d", "i", "r", "/", "k", "e", "y", ".", "y", "a", "m", "l">>)
       => sres = SplitTuple(<<"b", "u", "c", "k", "e", "t", "-", "x">>,
                            <<"u", "s", "-", "w", "e", "s", "t", "-", "2">>,
                            <<"d", "i", "r", "/", "k", "e", "y", ".", "y", "a", "m", "l">>,
                            "nil", FALSE)

SplitRoundTripSeen ==
    /\ parts = ExamplePieces
    /\ sres.err = "nil"
    /\ sres.key = <<"d", "i", "r", "/", "k", "e", "y", ".", "y", "a", "m", "l">>

\* the text of u after the first occurrence of ".amazonaws.com/"
AfterFirstTail(u) ==
    LET at == {i \in 1..(Len(u) - Len(TailText) + 1) :
                  SubSeq(u, i, i + Len(TailText) - 1) = TailText}
        first == CHOOSE i \in at : \A j \in at : i <= j
    IN  SubSeq(u, first + Len(TailText), Len(u))

\* C3: for every accepted URI the returned key is the whole remainder of the
\* URI after the first ".amazonaws.com/", whatever the remainder contains.
KeyIsWholeRemainder ==
    sres.err = "nil" => sres.key = AfterFirstTail(suri)

\* u is s3://{bucket}.s3.{region}.amazonaws.com/{key}, bucket and region
\* without a '.'
VirtualHostedStyle(u) ==
    /\ HasPrefix(u, <<"s", "3", ":", "/", "/">>)
    /\ \E i \in 6..Len(u), j \in 6..Len(u) :
          /\ \A n \in 6..(i - 1) : u[n] # "."
          /\ i + 3 <= Len(u)
          /\ SubSeq(u, i, i + 3) = <<".", "s", "3", ".">>
          /\ j >= i + 4
          /\ \A n \in (i + 4)..(j - 1) : u[n] # "."
          /\ j + Len(TailText) - 1 <= Len(u)
          /\ SubSeq(u, j, j + Len(TailText) - 1) = TailText

\* C4: S3URISplit returns no error only for URIs of the exact form
\* s3://{bucket}.s3.{region}.amazonaws.com/{key}.
OnlyVirtualHostedStyle ==
    sres.err = "nil" => VirtualHostedStyle(suri)

MissingComponentURIs ==
    {<<"s", "3", ":", "/", "/">> \o <<".", "s", "3", ".">> \o <<"r">> \o TailText \o <<"k">>,
     <<"s", "3", ":", "/", "/">> \o <<"b">> \o <<".", "s", "3", ".">> \o TailText \o <<"k">>,
     <<"s", "3", ":", "/", "/">> \o <<"b">> \o <<".", "s", "3", ".">> \o <<"r">> \o TailText}

\* C5: whenever S3URISplit returns no error, bucket, region and key are all
\* non-empty; a URI with an empty bucket, region or key is rejected, and the
\* s3 Retrieve on it returns an error.
LocatorNonEmpty ==
    \A c \in Callers :
        LET k == calls[c]
        IN  kind = "s3" =>
              /\ k.loc.err = "nil"
                    => (k.loc.bucket # <<>> /\ k.loc.region # <<>> /\ k.loc.key # <<>>)
              /\ k.pc \in {"loadcfg", "head", "download", "s3decode"} => k.loc.err = "nil"
              /\ (k.uri \in MissingComponentURIs /\ k.loc.err # "none")
                    => k.loc.err = "invalid s3-uri"
              /\ (k.uri \in MissingComponentURIs /\ k.pc # "idle")
                    => (k.pc \in {"creds", "split"} \/ (k.pc = "done" /\ k.ret.err # "nil"))

EmptyKeyRejected ==
    \E c \in Callers :
        /\ kind = "s3"
        /\ calls[c].pc = "done"
        /\ calls[c].uri = <<"s", "3", ":", "/", "/">> \o <<"b">> \o <<".", "s", "3", ".">>
                          \o <<"r">> \o TailText
        /\ calls[c].loc.err = "invalid s3-uri"
        /\ calls[c].ret.err = ErrNotS3URL

DotSegments(u) == Cardinality({i \in DOMAIN u : u[i] = "."}) + 1

\* C6: on every input S3URISplit returns normally, with a locator or with an
\* error: no index expression is out of range, and an input with fewer than
\* five '.'-separated segments is rejected.
SplitNeverPanics ==
    sres # NoSplit
        => /\ ~sres.panic
           /\ sres.err \in {"nil", "invalid s3-uri"}
           /\ DotSegments(suri) < 5 => sres.err = "invalid s3-uri"

ShortInputRejected ==
    /\ suri = <<>>
    /\ sres.err = "invalid s3-uri"

HTTPKinds == {"http", "https", "httpsNew"}

\* C7: in the http and https providers a response with status 4xx or 5xx
\* makes Retrieve return an error whatever the body holds, and the body is
\* never handed to the YAML decoder.
ErrorStatusIsFailure ==
    \A c \in Callers :
        LET k == calls[c]
        IN  (kind \in HTTPKinds /\ k.status >= 400)
                => /\ ~InLog(k, "NewRetrievedFromYAML")
                   /\ k.pc = "done" => k.ret.err # "nil"

ConstructionFailsLoudly ==
    \A c \in Callers :
        (kind = "httpsNew" /\ InLog(calls[c], "Get"))
            => (env.sslCertFile = "ok" /\ env.sysPool /\ "ca" \in calls[c].tls.rootCAs.cas)

\* the pool the provider is meant to verify against
ExpectedPool ==
    IF kind = "https" THEN [nil |-> FALSE, cas |-> {"system", "ca"}]
    ELSE IF ~env.sysPool THEN [nil |-> TRUE, cas |-> {}]
    ELSE IF env.sslCertFile = "ok" THEN [nil |-> FALSE, cas |-> {"system", "ca"}]
    ELSE [nil |-> FALSE, cas |-> {"system"}]

\* C10: every HTTPS GET is made with certificate verification enabled and
\* the constructed pool as RootCAs; when the server's chain does not
\* validate, Retrieve returns the download error of the GET step, never a
\* decode error and never a result.
VerifiedTLS ==
    \A c \in Callers :
        LET k == calls[c]
        IN  kind \in {"https", "httpsNew"} =>
              /\ ~client.tls.insecure
              /\ ~k.tls.insecure
              /\ InLog(k, "Get") => (k.tls.on /\ k.tls.rootCAs = ExpectedPool)
              /\ (InLog(k, "Get") /\ k.cert \notin (IF ExpectedPool.nil THEN {"system"} ELSE ExpectedPool.cas))
                    => /\ k.pc = "done"
                       /\ k.ret.err = ErrDownload
                       /\ ~k.ret.val.set
                       /\ ~InLog(k, "NewRetrievedFromYAML")

UntrustedServerRejected ==
    \E c \in Callers :
        /\ kind \in {"https", "httpsNew"}
        /\ InLog(calls[c], "Get")
        /\ calls[c].cert = "other"
        /\ calls[c].pc = "done"
        /\ calls[c].ret.err = ErrDownload

(***************************************************************************)
(* Errors and results of Retrieve                                          *)
(***************************************************************************)
\* the error message was formatted with the text v
ErrorNames(k, v) == \E i \in DOMAIN k.ret.args : k.ret.args[i] = v

\* the calls to AWS that go over the network
S3NetworkCalls == {"LoadDefaultConfig", "HeadObject", "Download"}

MissingKeys == ~env.accessKeyID \/ ~env.secretAccessKey

\* C13: every non-nil error Retrieve returns carries the URI that was passed
\* to Retrieve, on every error path of every provider.
ErrorCarriesURI ==
    \A c \in DOMAIN calls :
        (calls[c].pc = "done" /\ calls[c].ret.err # "nil") => ErrorNames(calls[c], calls[c].uri)

\* C14: Retrieve never returns both a result and an error: with a non-nil error
\* the returned value is the zero value, and a value comes only with a nil error.
NeverResultAndError ==
    \A c \in DOMAIN calls :
        calls[c].pc = "done" =>
            /\ calls[c].ret.err # "nil" => calls[c].ret.val = ZeroRetrieved
            /\ calls[c].ret.val.set => calls[c].ret.err = "nil"

\* a body arrived, reading it failed, and the zero value was returned
ReadFailureReturnsZero ==
    \E c \in DOMAIN calls :
        /\ calls[c].pc = "done"
        /\ calls[c].ret.err = ErrReadBody
        /\ calls[c].respBody # <<>>
        /\ calls[c].ret.val = ZeroRetrieved

\* C15: s3, a credential variable is empty and the URI has the s3 prefix: the
\* call returns the access-key error at once, with no configuration load, no
\* HeadObject and no Download.
MissingKeysFailFast ==
    (kind = "s3" /\ MissingKeys) =>
        \A c \in DOMAIN calls :
            (calls[c].pc # "idle" /\ SchemeMatches(kind, calls[c].uri)) =>
                /\ calls[c].pc \in {"creds", "done"}
                /\ \A e \in S3NetworkCalls : ~InLog(calls[c], e)
                /\ calls[c].pc = "done" => calls[c].ret.err = ErrAccessKeys

\* a well-formed s3 URI was refused for the missing secret key alone
MissingSecretKeySeen ==
    \E c \in DOMAIN calls :
        /\ kind = "s3" /\ env.accessKeyID /\ ~env.secretAccessKey
        /\ calls[c].pc = "done"
        /\ S3URISplit(calls[c].uri).err = "nil"
        /\ calls[c].ret.err = ErrAccessKeys
        /\ calls[c].log = <<"Getenv", "Getenv">>

\* the URI has the s3 prefix and S3URISplit refuses it
Malformed(uri) == SchemeMatches("s3", uri) /\ S3URISplit(uri).err # "nil"

\* C16 as stated: a URI with the s3 prefix that fails decomposition gets the
\* not-valid-s3-url error naming it, whatever the credential variables hold,
\* and no network call.
MalformedAlwaysReported ==
    kind = "s3" =>
        \A c \in DOMAIN calls :
            (calls[c].pc = "done" /\ Malformed(calls[c].uri)) =>
                /\ calls[c].ret.err = ErrNotS3URL
                /\ ErrorNames(calls[c], calls[c].uri)
                /\ \A e \in S3NetworkCalls : ~InLog(calls[c], e)

\* C16: a URI with the s3 prefix that fails decomposition gets the
\* not-valid-s3-url error naming it when both credential variables are
\* non-empty, and the access-key error when either is empty; no network call
\* is made in either case.
MalformedReportedAfterKeys ==
    kind = "s3" =>
        \A c \in DOMAIN calls :
            (calls[c].pc # "idle" /\ Malformed(calls[c].uri)) =>
                /\ calls[c].pc \in {"creds", "split", "done"}
                /\ \A e \in S3NetworkCalls : ~InLog(calls[c], e)
                /\ calls[c].pc = "done" =>
                       IF MissingKeys
                       THEN calls[c].ret.err = ErrAccessKeys /\ ~InLog(calls[c], "S3URISplit")
                       ELSE calls[c].ret.err = ErrNotS3URL /\ ErrorNames(calls[c], calls[c].uri)

\* with both keys set, a malformed s3 URI was refused by the decomposition
MalformedRefusedWithKeys ==
    \E c \in DOMAIN calls :
        /\ kind = "s3" /\ ~MissingKeys
        /\ calls[c].pc = "done"
        /\ Malformed(calls[c].uri)
        /\ calls[c].ret.err = ErrNotS3URL
        /\ calls[c].log = <<"Getenv", "Getenv", "S3URISplit">>

\* C20: when the GET and the body read succeed, the decoder gets exactly the
\* bytes of the response and Retrieve returns exactly the decoder's outcome: a
\* value with a nil error for a decodable body, the decoder's error with the
\* zero value otherwise, and never a panic.
DecoderOutcomeReturned ==
    kind \in HTTPKinds =>
        \A c \in DOMAIN calls :
            /\ calls[c].pc # "panic"
            /\ calls[c].pc = "decode" => calls[c].body = calls[c].respBody
            /\ (calls[c].pc = "done" /\ InLog(calls[c], "NewRetrievedFromYAML")) =>
                   /\ calls[c].body = calls[c].respBody
                   /\ calls[c].ret = NewRetrievedFromYAML(calls[c].respBody)
                   /\ IF Decodable(calls[c].respBody)
                      THEN /\ calls[c].ret.err = "nil"
                           /\ calls[c].ret.val = [set |-> TRUE, conf |-> calls[c].respBody]
                      ELSE /\ calls[c].ret.err = ErrDecode
                           /\ calls[c].ret.val = ZeroRetrieved

\* a fetched body the decoder rejects came back as the decoder's error
InvalidYAMLRejected ==
    \E c \in DOMAIN calls :
        /\ kind \in HTTPKinds
        /\ calls[c].pc = "done"
        /\ InLog(calls[c], "ReadAll")
        /\ ~Decodable(calls[c].respBody)
        /\ calls[c].ret.err = ErrDecode

(***************************************************************************)
(* Cancellation, Shutdown and Scheme                                       *)
(***************************************************************************)
\* C11: a call whose context was cancelled while its network call was in
\* flight returns a non-nil error that is not the decoder's error.
CancelUnblocks ==
    \A c \in DOMAIN calls :
        (ctx[c].cancelled /\ calls[c].pc = "done") => calls[c].ret.err \notin {"nil", ErrDecode}

\* C17: every Shutdown returns nil, the first one and every one after it,
\* whatever Retrieve calls came before.
ShutdownIdempotent ==
    /\ life.err \in {"none", "nil"}
    /\ life.shutdowns > 0 => life.err = "nil"

\* Shutdown was called at least twice after a Retrieve that failed
ShutdownTwiceSeen ==
    /\ life.shutdowns >= 2
    /\ life.err = "nil"
    /\ \E c \in DOMAIN calls :
          calls[c].pc = "done" /\ ~ctx[c].afterShutdown /\ calls[c].ret.err # "nil"

\* the errors Retrieve of each provider returns, nil included
RetrieveErrors(k) ==
    IF k = "s3"
    THEN {"nil", ErrUnsupported, ErrAccessKeys, ErrNotS3URL, ErrAWSConfig, ErrHeadObject,
          ErrS3Fetch, ErrDecode}
    ELSE IF k = "https"
    THEN {"nil", ErrUnsupported, ErrCertPool, ErrReadCA, ErrAddCA, ErrDownload, ErrReadBody,
          ErrDecode}
    ELSE {"nil", ErrUnsupported, ErrDownload, ErrReadBody, ErrDecode}

\* C18: a Retrieve made after Shutdown has returned does not panic and ends
\* with one of the outcomes Retrieve has before Shutdown, and a Shutdown made
\* after such a Retrieve returns nil.
RetrieveAfterShutdown ==
    /\ \A c \in DOMAIN calls :
          ctx[c].afterShutdown =>
              /\ calls[c].pc # "panic"
              /\ calls[c].pc = "done" => calls[c].ret.err \in RetrieveErrors(kind)
    /\ life.late => life.err = "nil"

\* a Retrieve made after Shutdown fetched and decoded a body, and Shutdown was
\* called again after it
LateRetrieveSeen ==
    /\ life.late
    /\ \E c \in DOMAIN calls :
          /\ ctx[c].afterShutdown
          /\ calls[c].pc = "done"
          /\ calls[c].ret.err = "nil"
          /\ calls[c].ret.val.set

\* the scheme each provider is registered under
ExpectedScheme ==
    IF kind = "s3" THEN <<"s", "3">>
    ELSE IF kind = "http" THEN <<"h", "t", "t", "p">>
    ELSE <<"h", "t", "t", "p", "s">>

\* C19: whenever Scheme() returns, it returns the provider's constant scheme
\* name, and the call changes nothing of the provider, its calls or its
\* lifecycle.
SchemeIsPureAccessor ==
    [][schemeRet' # schemeRet =>
          /\ schemeRet'.name = ExpectedScheme
          /\ UNCHANGED <<kind, env, client, calls, life, ctx>>]_vars

\* Scheme() answered on an s3 provider after Shutdown had returned
SchemeAfterShutdown ==
    /\ kind = "s3"
    /\ schemeRet.name = <<"s", "3">>
    /\ schemeRet.shutdowns > 0

(***************************************************************************)
(* Concurrent Retrieve calls                                               *)
(***************************************************************************)
\* what Retrieve(uri) can return when it runs alone on a provider of kind k
\* with all credentials and trust material in place, against the fixed
\* backend: the decoded content of uri, or a failure of one of its own steps
AloneOutcomes(k, uri) ==
    IF ~SchemeMatches(k, uri) THEN {Errorf(ErrUnsupported, <<uri, SchemeNameOf(k)>>)}
    ELSE IF k = "s3"
    THEN IF S3URISplit(uri).err # "nil" THEN {Errorf(ErrNotS3URL, <<uri>>)}
         ELSE {NewRetrievedFromYAML(ContentOf(uri)),
               Errorf(ErrAWSConfig, <<>>),
               Errorf(ErrHeadObject, <<S3URISplit(uri).bucket, S3URISplit(uri).key,
                                       S3URISplit(uri).region>>),
               Errorf(ErrS3Fetch, <<uri>>)}
    ELSE {NewRetrievedFromYAML(ContentOf(uri)),
          Errorf(ErrDownload, <<uri>>),
          Errorf(ErrReadBody, <<uri>>)}

\* C12: with two callers interleaved in any way on one provider, every call
\* works on its own URI, locator, response body and buffer, and returns what
\* it would return alone; in particular never the bytes of the other's URI.
CallsIndependent ==
    \A c \in DOMAIN calls :
        /\ calls[c].respBody \in {EmptyStr, ContentOf(calls[c].uri)}
        /\ calls[c].body \in {EmptyStr, ContentOf(calls[c].uri)}
        /\ calls[c].loc \in {NoSplit, S3URISplit(calls[c].uri)}
        /\ calls[c].pc = "done" =>
               /\ calls[c].ret \in AloneOutcomes(kind, calls[c].uri)
               /\ calls[c].ret.val.set => calls[c].ret.val.conf = ContentOf(calls[c].uri)

\* two calls with different URIs both returned, each with its own content
TwoCallsSeen ==
    \E c, d \in DOMAIN calls :
        /\ c # d
        /\ calls[c].uri # calls[d].uri
        /\ calls[c].pc = "done" /\ calls[d].pc = "done"
        /\ calls[c].ret.val.set /\ calls[d].ret.val.set
        /\ calls[c].ret.val.conf # calls[d].ret.val.conf

(***************************************************************************)
(* The s3 download buffer                                                  *)
(***************************************************************************)
\* C21: the bytes the s3 Retrieve hands to the decoder are exactly the bytes
\* the download returned, whatever length HeadObject reported before.
S3BytesUnmodified ==
    kind = "s3" =>
        \A c \in DOMAIN calls :
            InLog(calls[c], "Download") /\ calls[c].pc \in {"s3decode", "done"}
                /\ calls[c].ret.err # ErrS3Fetch
                => calls[c].body = calls[c].respBody

(***************************************************************************)
(* Failure classes of the http and https providers                         *)
(***************************************************************************)
Last(s) == s[Len(s)]

\* C22: http and https: a scheme mismatch, a failed GET and a failed body read
\* give three different errors; the mismatch error comes before any step, the
\* GET error right after the GET, and the body-read error only after a GET
\* that returned without error.
ThreeFailureClasses ==
    /\ Cardinality({ErrUnsupported, ErrDownload, ErrReadBody}) = 3
    /\ kind \in HTTPKinds =>
          \A c \in DOMAIN calls :
              calls[c].pc = "done" =>
                  /\ calls[c].ret.err = ErrUnsupported <=> ~SchemeMatches(kind, calls[c].uri)
                  /\ calls[c].ret.err = ErrUnsupported => calls[c].log = <<>>
                  /\ calls[c].ret.err = ErrDownload =>
                         /\ calls[c].log # <<>> /\ Last(calls[c].log) = "Get"
                         /\ ~InLog(calls[c], "ReadAll")
                  /\ calls[c].ret.err = ErrReadBody =>
                         /\ InLog(calls[c], "Get") /\ InLog(calls[c], "ReadAll")
                         /\ calls[c].status \in Statuses

\* a GET answered, and reading the answer's body failed
ReadFailureAfterGet ==
    \E c \in DOMAIN calls :
        /\ kind \in HTTPKinds
        /\ calls[c].pc = "done"
        /\ calls[c].ret.err = ErrReadBody
        /\ InLog(calls[c], "Get")
        /\ calls[c].status = 200

(***************************************************************************)
(* No cache, no retry                                                      *)
(***************************************************************************)
\* how often the event e is in the log of the call k
Count(k, e) == Cardinality({i \in DOMAIN k.log : k.log[i] = e})

\* the event that fetches the content, per provider
FetchEvent == IF kind = "s3" THEN "Download" ELSE "Get"

\* C23: a Retrieve that returns a value fetched it in that very call, with one
\* fetch of its own, and the value is the content that fetch delivered, also
\* when the same URI was retrieved before with another content.
EveryCallFetches ==
    \A c \in DOMAIN calls :
        (calls[c].pc = "done" /\ calls[c].ret.err = "nil") =>
            /\ Count(calls[c], FetchEvent) = 1
            /\ calls[c].ret.val = [set |-> TRUE, conf |-> calls[c].body]
            /\ calls[c].body = WriteAtBufferBytes(calls[c].length, calls[c].respBody)

\* the same URI was retrieved twice, the content changed in between, and the
\* second call returned the new content
ContentChangeSeen ==
    \E c \in DOMAIN calls :
        /\ hist.on
        /\ calls[c].pc = "done"
        /\ hist.uri = calls[c].uri
        /\ hist.prev.err = "nil" /\ calls[c].ret.err = "nil"
        /\ hist.prev.val.conf # calls[c].ret.val.conf
        /\ calls[c].ret.val.conf = calls[c].respBody

\* the steps of Retrieve that go to a server or to AWS
NetworkEvents == {"Get", "ReadAll", "LoadDefaultConfig", "HeadObject", "Download"}

\* the step whose failure gives each error
FailedStep(err) ==
    IF err = ErrDownload THEN "Get"
    ELSE IF err = ErrReadBody THEN "ReadAll"
    ELSE IF err = ErrAWSConfig THEN "LoadDefaultConfig"
    ELSE IF err = ErrHeadObject THEN "HeadObject"
    ELSE IF err = ErrS3Fetch THEN "Download"
    ELSE "none"

\* C24: within one Retrieve every network step (the GET, the body read, the
\* config load, HeadObject, Download) is invoked at most once, and a call that
\* ends with the error of a step invoked that step once and went no further
\* but for the deferred Close.
NoRetry ==
    \A c \in DOMAIN calls :
        /\ \A e \in NetworkEvents : Count(calls[c], e) <= 1
        /\ (calls[c].pc = "done" /\ FailedStep(calls[c].ret.err) # "none") =>
               /\ Count(calls[c], FailedStep(calls[c].ret.err)) = 1
               /\ Last(calls[c].log) \in {FailedStep(calls[c].ret.err), "Close"}
               /\ ~InLog(calls[c], "NewRetrievedFromYAML")

\* a GET failed and the call ended with that one GET
GetFailedOnce ==
    \E c \in DOMAIN calls :
        /\ kind = "http"
        /\ calls[c].pc = "done"
        /\ calls[c].ret.err = ErrDownload
        /\ calls[c].log = <<"Get">>

(***************************************************************************)
(* The watcher                                                             *)
(***************************************************************************)
\* C25: the watcher passed to Retrieve is never invoked, during the call,
\* after it or by Shutdown, and a call with a callback runs as a call with
\* nil does: it does not panic and ends with one of Retrieve's outcomes.
WatcherNeverInvoked ==
    \A c \in DOMAIN calls :
        /\ io[c].invoked = 0
        /\ io[c].watcher \in Watchers
        /\ calls[c].pc # "panic"
        /\ calls[c].pc = "done" => calls[c].ret.err \in RetrieveErrors(kind)

\* a call that was given a callback returned a value, Shutdown followed, and
\* the callback was not invoked
WatcherPassedSeen ==
    \E c \in DOMAIN calls :
        /\ io[c].watcher = "fn"
        /\ io[c].invoked = 0
        /\ calls[c].pc = "done"
        /\ calls[c].ret.err = "nil"
        /\ ~ctx[c].afterShutdown
        /\ life.shutdowns > 0

(***************************************************************************)
(* Transports                                                              *)
(***************************************************************************)
\* C26: when Shutdown has returned, no transport that New or an earlier
\* Retrieve created is still open.
NoTransportAfterShutdown ==
    life.shutdowns > 0 => transports.atShutdown = 0

(***************************************************************************)
(* Credentials of the s3 provider                                          *)
(***************************************************************************)
\* C27: s3, an access-key variable is empty but the default credential chain
\* can supply credentials: Retrieve of a well-formed URI does not end with the
\* access-key error; it goes on to load the configuration.
AmbientCredentialsUsed ==
    (kind = "s3" /\ MissingKeys /\ env.defaultChain) =>
        \A c \in DOMAIN calls :
            (calls[c].pc = "done" /\ S3URISplit(calls[c].uri).err = "nil") =>
                /\ calls[c].ret.err # ErrAccessKeys
                /\ InLog(calls[c], "LoadDefaultConfig")

(***************************************************************************)
(* The steps of the s3 Retrieve                                            *)
(***************************************************************************)
\* the steps of a complete s3 Retrieve after the scheme check, in order
S3Steps ==
    <<"Getenv", "Getenv", "S3URISplit", "LoadDefaultConfig", "HeadObject", "Download",
      "NewRetrievedFromYAML">>

IsPrefix(s, t) == Len(s) <= Len(t) /\ SubSeq(t, 1, Len(s)) = s

\* the requests a call has sent, given the steps it has taken
RequestsFor(k) ==
    LET loc == S3URISplit(k.uri)
    IN  (IF InLog(k, "LoadDefaultConfig")
         THEN <<Request("LoadDefaultConfig", EmptyStr, EmptyStr, loc.region)>> ELSE <<>>)
        \o (IF InLog(k, "HeadObject")
            THEN <<Request("HeadObject", loc.bucket, loc.key, EmptyStr)>> ELSE <<>>)
        \o (IF InLog(k, "Download")
            THEN <<Request("Download", loc.bucket, loc.key, EmptyStr)>> ELSE <<>>)

\* C28: the s3 Retrieve takes its steps in the order credential check,
\* decomposition, config load for the decomposed region, HeadObject, Download,
\* decode, each only after the one before succeeded; a call that ended with a
\* step's error took no later step; HeadObject and Download name the bucket
\* and key the decomposition returned.
S3StepsInOrder ==
    kind = "s3" =>
        \A c \in DOMAIN calls :
            /\ IsPrefix(calls[c].log, S3Steps)
            /\ SchemeMatches(kind, calls[c].uri) \/ calls[c].log = <<>>
            /\ (calls[c].pc = "done" /\ FailedStep(calls[c].ret.err) # "none") =>
                   Last(calls[c].log) = FailedStep(calls[c].ret.err)
            /\ calls[c].ret.err = ErrHeadObject => ~InLog(calls[c], "Download")
            /\ InLog(calls[c], "NewRetrievedFromYAML") =>
                   InLog(calls[c], "Download") /\ calls[c].ret.err # ErrS3Fetch
            /\ io[c].requests = RequestsFor(calls[c])

\* a whole s3 Retrieve ran, with its three requests
S3FullRunSeen ==
    \E c \in DOMAIN calls :
        /\ kind = "s3"
        /\ calls[c].pc = "done"
        /\ calls[c].log = S3Steps
        /\ Len(io[c].requests) = 3
        /\ io[c].requests[3].key = <<"d", "/", "k", ".", "y">>

(***************************************************************************)
(* The response body                                                       *)
(***************************************************************************)
\* C29: http and https: a call whose GET returned a response closes the body
\* once, as its last step, whether it ends with a value, the body-read error
\* or the decoder's error, and not before it returns; a call whose GET failed
\* reads and closes nothing.
BodyClosedOnce ==
    kind \in HTTPKinds =>
        \A c \in DOMAIN calls :
            /\ calls[c].pc # "done" => Count(calls[c], "Close") = 0
            /\ (calls[c].pc = "done" /\ InLog(calls[c], "Get")
                    /\ calls[c].ret.err # ErrDownload) =>
                   /\ Count(calls[c], "Close") = 1
                   /\ Last(calls[c].log) = "Close"
            /\ (calls[c].pc = "done" /\ calls[c].ret.err = ErrDownload) =>
                   /\ Count(calls[c], "Close") = 0
                   /\ Count(calls[c], "ReadAll") = 0
            /\ (calls[c].pc = "done" /\ ~InLog(calls[c], "Get")) =>
                   Count(calls[c], "Close") = 0

\* the decoder refused the body, and the body was closed once
ClosedAfterDecodeFailure ==
    \E c \in DOMAIN calls :
        /\ kind \in HTTPKinds
        /\ calls[c].pc = "done"
        /\ calls[c].ret.err = ErrDecode
        /\ Count(calls[c], "Close") = 1

(***************************************************************************)
(* NewCommand                                                              *)
(***************************************************************************)
\* C30: whenever RunE reaches col.Run, the context it passes is non-nil and
\* derived from the command's context of that run, whether set.ConfigProvider
\* was nil (and the provider was built, the overwrite-properties converter
\* first) or supplied.
RunContextNonNil ==
    (cmd.pc = "ran" /\ cmd.ret = "col.Run") =>
        /\ ~cmd.runCtx.nil
        /\ cmd.runCtx.parent = cmd.parent
        /\ cmd.converters # <<>> => cmd.converters[1] = "overwriteproperties"

====
